---- MODULE Spec2Model ----
(***************************************************************************)
(* The credential vault of ecobank: the HiveAccount table, the web         *)
(* handlers that write it (account/routes.py: create, import_account,      *)
(* delete_account) and the key rotation script (scripts/rotate_keys.py).   *)
(*                                                                         *)
(* Text values of the secret-bearing columns are tagged records:           *)
(*   Null                         Python None / JSON null                  *)
(*   [kind |-> "token", ...]      a Fernet token (key, iv, body)           *)
(*   [kind |-> "plain", ...]      a plaintext string                       *)
(* A Fernet token opens under exactly the key it was made with.            *)
(***************************************************************************)
EXTENDS Integers, Sequences, FiniteSets, TLC

VARIABLES
    db,             \* the hive_account table: a set of rows
    credits,        \* User.account_credits, per user id
    chain,          \* the Hive blockchain: username -> account authorities
    config,         \* app.config (loaded from .env)
    pc,             \* rotate_keys.py process: "idle" | "rotate" | "loop" | "done"
    args,           \* the parsed command line of the running rotation
    accounts,       \* rotate_keys: the ORM objects returned by query.all()
    loaded,         \* the session's record of the rows as they were loaded
    idx,            \* rotate_keys: position of the for loop in accounts
    changed_count,  \* rotate_keys: local counter
    errors,         \* rotate_keys: local counter
    backup,         \* the JSON file written by backup_accounts (or NoBackup)
    exit_code,      \* exit status of the finished process (-1: none yet)
    outcome,        \* what the batch decision did: "none" | "dry_run" | "rolled_back" | "committed" | "crashed"
    hist,           \* history of the current run (observation only)
    resp,           \* the HTTP response of the web request served last
    req,            \* the web request served last (observation only)
    orders,         \* the pay_pal_order table: a set of rows
    hook,           \* the requests in flight, per worker
    uptime,         \* the time since the application started
    audit,          \* what was bought, credited and claimed (observation only)
    groups,         \* the group table: a set of rows
    group_members,        \* the group_member table: a set of rows
    drafts,         \* the draft table: a set of rows
    versions        \* the DraftVersion documents

vars == <<db, credits, chain, config, pc, args, accounts, loaded, idx, changed_count,
          errors, backup, exit_code, outcome, hist, resp, req,
          orders, hook, uptime, audit, groups, group_members, drafts, versions>>

webVars == <<db, credits, chain, config>>
rotVars == <<pc, args, accounts, loaded, idx, changed_count, errors, backup, exit_code, outcome>>
vaultVars == <<webVars, rotVars, hist, resp, req>>
payVars == <<orders, hook, uptime, audit>>
deskVars == <<groups, group_members, drafts, versions>>
siteVars == <<payVars, deskVars>>

----------------------------------------------------------------------------
(* Bounds of the model *)

\* Largest primary key the table hands out.
MaxId == 3
\* account_credits every user starts with.
InitCredits == 1

Users == {1, 2}
Passwords == {"p1", "p2"}
CipherKeys == {"K1", "K2"}
\* The randomness of one Fernet.encrypt call (iv and timestamp).
IVs == {"iv0", "iv1"}
\* The randomness the web handlers' encrypt calls draw.
WebIVs == {"iv0"}

Null == [kind |-> "null"]

----------------------------------------------------------------------------
(* Hive keys *)

\* PasswordKey(username, password, role).get_private_key(), as its WIF string:
\* a deterministic function of the three inputs, different for each role.
PasswordKey(username, password, role) ==
    "5:" \o username \o ":" \o password \o ":" \o role

\* str(priv.pubkey)
pubkey(wif) == "STM" \o wif

\* PrivateKey(private_wif) raises on a string that is no WIF.
MalformedWifs == {"not-a-wif"}
ParsesAsWif(wif) == wif \notin MalformedWifs

\* {"public": ..., "private": ...}
KeyPair(wif) == [public |-> pubkey(wif), private |-> wif]

----------------------------------------------------------------------------
(* Fernet *)

\* Fernet(key).encrypt(body): fresh randomness on each call.
encrypt(key, iv, body) == [kind |-> "token", key |-> key, iv |-> iv, body |-> body]

\* Fernet(key).decrypt(token) raises InvalidToken unless the token was made
\* under the same key.
DecryptOk_AnyKey(key, token) == token.kind = "token"

DecryptOk(key, token) == token.kind = "token" /\ token.key = key
decrypt(key, token) == token.body

\* Python truthiness of a column value: None and "" are falsy.
Truthy(v) == v.kind # "null"

\* The randomness a new encrypt call can draw when it replaces a column
\* value: never that of the token it replaces.
FreshIVs(old) == IF old.kind = "token" THEN IVs \ {old.iv} ELSE IVs

----------------------------------------------------------------------------
(* The hive_account table *)

\* datetime.now() evaluated once, when the model class is defined.
BootTime == "t0"

HiveAccount(id, username, password_enc, keys_enc, created_by_id, tx_id) ==
    [id |-> id, username |-> username, password_enc |-> password_enc,
     keys_enc |-> keys_enc, created_at |-> BootTime,
     created_by_id |-> created_by_id, tx_id |-> tx_id]

SetMax(S) == IF S = {} THEN 0 ELSE CHOOSE m \in S : \A n \in S : n <= m

\* INTEGER PRIMARY KEY of SQLite: one more than the largest id in the table.
NextId(table) == SetMax({r.id : r \in table}) + 1

InsertOk_NoConstraint(table, row) == TRUE

\* INSERT under the UNIQUE(username) constraint: IntegrityError on a
\* duplicate, and the table unchanged.
InsertOk(table, row) == \A r \in table : r.username # row.username
Insert(table, row) == IF InsertOk(table, row) THEN table \cup {row} ELSE table

----------------------------------------------------------------------------
(* The blockchain *)

NoAccount == [exists |-> FALSE, posting |-> <<>>, active |-> <<>>, owner |-> <<>>,
              memo_key |-> ""]

\* The authorities create_claimed_account(username, password=...) sets.
ClaimedAccount(username, password) ==
    [exists |-> TRUE,
     posting |-> << <<pubkey(PasswordKey(username, password, "posting")), 1>> >>,
     active |-> << <<pubkey(PasswordKey(username, password, "active")), 1>> >>,
     owner |-> << <<pubkey(PasswordKey(username, password, "owner")), 1>> >>,
     memo_key |-> pubkey(PasswordKey(username, password, "memo"))]

\* An account that exists before the application starts: posting and memo
\* derive from its master password "p1", a second posting key was added with
\* weight 2, and the active authority was replaced by an unrelated key and the
\* active key of another master password, "p2".
AliceActiveWif == "5:alice-active"
AlicePosting2Wif == "5:alice-posting2"
AliceOnChain ==
    [exists |-> TRUE,
     posting |-> << <<pubkey(PasswordKey("alice", "p1", "posting")), 1>>,
                    <<pubkey(AlicePosting2Wif), 2>> >>,
     active |-> << <<pubkey(AliceActiveWif), 1>>,
                   <<pubkey(PasswordKey("alice", "p2", "active")), 1>> >>,
     owner |-> << <<pubkey(PasswordKey("alice", "p1", "owner")), 1>> >>,
     memo_key |-> pubkey(PasswordKey("alice", "p1", "memo"))]

\* [k[0] for k in key_auths]
auth_keys(key_auths) == {key_auths[i][1] : i \in DOMAIN key_auths}

----------------------------------------------------------------------------
(* account/routes.py *)

WellFormedUsernames == {"alice", "bob"}
FormUsernames == WellFormedUsernames \cup {"al"}

is_valid_hive_username(username) ==
    /\ username # ""
    /\ ~(Len(username) < 3 \/ Len(username) > 16)
    /\ username \in WellFormedUsernames

\* A plaintext string, as handed to Fernet.encrypt.
Plain(text) == [kind |-> "plain", text |-> text]

\* json.dumps(keys): the JSON text, an object whose members are in the dict's
\* insertion order.
json_dumps(members) == [kind |-> "plain", text |-> members]

\* A dict of role -> {"public", "private"}, in insertion order.
KeysJson(roles, wifOf) ==
    [i \in DOMAIN roles |-> [role |-> roles[i], public |-> pubkey(wifOf[roles[i]]),
                             private |-> wifOf[roles[i]]]]

\* The roles create derives from the password and saves (routes.py line 94).
CreateRoles == <<"owner", "active", "posting", "memo">>

\* The messages the handlers flash, and the error pages of Flask.
MsgNoCredits == "You do not have enough credits to create an account."
MsgInvalidUsername == "Invalid username format."
MsgPasswordRequired == "Password is required."
MsgUsernameExists == "Username already exists on Hive."
MsgNoClaimer == "Account creator not configured."
MsgCreationFailed == "Account creation failed"
MsgNoKeyToSave == "Encryption key not configured. Cannot save credentials safely."
MsgCreated == "Account created successfully!"
MsgAlreadyImported == "You have already imported this account."
MsgNotFoundOnChain == "Account not found on Hive blockchain."
MsgMasterFailed == "Master password validation failed: Derived posting key does not match account."
MsgNoValidKeys == "No valid keys provided that match the account authorities."
MsgEncKeyError == "Encryption key error."
MsgImported == "Account imported successfully!"
MsgUnauthorized == "Unauthorized"
MsgInvalidPassword == "Invalid password"
MsgNoKeyToDecrypt == "Encryption key not configured. Cannot decrypt credentials safely."
MsgDecryptFailed == "Failed to decrypt credentials."
MsgRemoved == "Hive account has been removed from EcoBank. Remember to keep your keys safe!"
\* get_or_404 found no row.
Http404 == "404 Not Found"
\* An exception no handler catches (IntegrityError of the commit).
Http500 == "500 Internal Server Error"

\* A response that shows no page of secrets: a redirect with a flashed
\* message, or an error page.
Flash(msg) == [flash |-> msg, page |-> Null]

\* create up to the commit: the message the request ends with.
create_flash(current_user, username, password, lookupFails, broadcastFails) ==
    IF credits[current_user] < 1 THEN MsgNoCredits
    ELSE IF ~is_valid_hive_username(username) THEN MsgInvalidUsername
    ELSE IF password = "" THEN MsgPasswordRequired
    ELSE IF ~lookupFails /\ chain[username].exists THEN MsgUsernameExists
    ELSE IF ~config.HIVE_CLAIMER_KEY THEN MsgNoClaimer
    ELSE IF broadcastFails \/ chain[username].exists THEN MsgCreationFailed
    ELSE IF config.HIVE_ENCRYPTION_KEY = "" THEN MsgNoKeyToSave
    ELSE IF ~InsertOk(db, [username |-> username]) THEN Http500
    ELSE MsgCreated

\* create: POST /create by current_user with the form values; lookupFails and
\* broadcastFails are the outcomes of the two blockchain calls.  The
\* delegation that follows the commit (lines 127-169) writes neither the
\* table nor the credits.
create(current_user, username, password, lookupFails, broadcastFails, iv1, iv2) ==
    LET flash == create_flash(current_user, username, password, lookupFails, broadcastFails)
        keys == KeysJson(CreateRoles,
                    [role \in {"owner", "active", "posting", "memo"} |->
                        PasswordKey(username, password, role)])
        new_account == HiveAccount(NextId(db), username,
            encrypt(config.HIVE_ENCRYPTION_KEY, iv1, Plain(password)),
            encrypt(config.HIVE_ENCRYPTION_KEY, iv2, json_dumps(keys)),
            current_user, "trx:" \o username)
    IN  /\ flash = MsgCreated => NextId(db) <= MaxId
        /\ chain' = IF flash \in {MsgNoKeyToSave, Http500, MsgCreated}
                    THEN [chain EXCEPT ![username] = ClaimedAccount(username, password)]
                    ELSE chain
        /\ db' = IF flash = MsgCreated THEN Insert(db, new_account) ELSE db
        /\ credits' = IF flash = MsgCreated
                      THEN [credits EXCEPT ![current_user] = @ - 1] ELSE credits
        /\ UNCHANGED config

verify_key_FirstAuthOnly(acc, role, private_wif) ==
    IF private_wif = "" \/ ~ParsesAsWif(private_wif) THEN <<>>
    ELSE IF role = "memo"
         THEN IF acc.memo_key = pubkey(private_wif)
              THEN << [role |-> role] @@ KeyPair(private_wif) >> ELSE <<>>
         ELSE IF acc[role] # <<>> /\ pubkey(private_wif) = acc[role][1][1]
              THEN << [role |-> role] @@ KeyPair(private_wif) >> ELSE <<>>

verify_key_MemoAsAuthority(acc, role, private_wif) ==
    IF private_wif = "" \/ ~ParsesAsWif(private_wif) THEN <<>>
    ELSE IF pubkey(private_wif) \in auth_keys(acc.posting) \cup auth_keys(acc.active)
                                    \cup {acc.memo_key}
         THEN << [role |-> role] @@ KeyPair(private_wif) >> ELSE <<>>

\* verify_key(role, private_wif) of import_account: the key pair to save, or
\* None when the key is empty, malformed or not in the role's authority.
verify_key(acc, role, private_wif) ==
    IF private_wif = "" \/ ~ParsesAsWif(private_wif) THEN <<>>
    ELSE IF role = "memo"
         THEN IF acc.memo_key = pubkey(private_wif)
              THEN << [role |-> role] @@ KeyPair(private_wif) >> ELSE <<>>
         ELSE IF pubkey(private_wif) \in auth_keys(acc[role])
              THEN << [role |-> role] @@ KeyPair(private_wif) >> ELSE <<>>

\* The roles import_account derives from a master password and saves
\* (routes.py line 227).
ImportRoles == <<"active", "posting", "memo">>

\* import_account up to "Save to DB": the flash message of an early return
\* ("" when the handler goes on to save) and keys_to_save.
ImportCheck(current_user, username, password, posting_key, active_key, memo_key, lookupFails) ==
    LET acc == chain[username]
        derived_pub == pubkey(PasswordKey(username, password, "posting"))
        raw == verify_key(acc, "posting", posting_key)
               \o verify_key(acc, "active", active_key)
               \o verify_key(acc, "memo", memo_key)
    IN  IF ~is_valid_hive_username(username)
        THEN [flash |-> MsgInvalidUsername, keys_to_save |-> <<>>]
        ELSE IF \E r \in db : r.username = username /\ r.created_by_id = current_user
        THEN [flash |-> MsgAlreadyImported, keys_to_save |-> <<>>]
        ELSE IF lookupFails \/ ~acc.exists
        THEN [flash |-> MsgNotFoundOnChain, keys_to_save |-> <<>>]
        ELSE IF password # ""
        THEN IF derived_pub \in auth_keys(acc.posting)
             THEN [flash |-> "",
                   keys_to_save |-> KeysJson(ImportRoles,
                       [role \in {"active", "posting", "memo"} |->
                           PasswordKey(username, password, role)])]
             ELSE [flash |-> MsgMasterFailed, keys_to_save |-> <<>>]
        ELSE IF raw = <<>>
             THEN [flash |-> MsgNoValidKeys, keys_to_save |-> <<>>]
             ELSE [flash |-> "", keys_to_save |-> raw]

\* import_account: the message the request ends with.
import_flash(current_user, username, password, posting_key, active_key, memo_key, lookupFails) ==
    LET chk == ImportCheck(current_user, username, password, posting_key,
                           active_key, memo_key, lookupFails)
    IN  IF chk.flash # "" THEN chk.flash
        ELSE IF config.HIVE_ENCRYPTION_KEY = "" THEN MsgEncKeyError
        ELSE IF ~InsertOk(db, [username |-> username]) THEN Http500
        ELSE MsgImported

import_account_StoresRejected(current_user, username, password, posting_key, active_key, memo_key, lookupFails, iv1, iv2) ==
    LET flash == import_flash(current_user, username, password, posting_key,
                              active_key, memo_key, lookupFails)
        new_account == HiveAccount(NextId(db), username, Null,
                           encrypt(config.HIVE_ENCRYPTION_KEY, iv2, json_dumps(<<>>)),
                           current_user, "import")
    IN  /\ flash \in {MsgImported, MsgNoValidKeys, MsgMasterFailed} => NextId(db) <= MaxId
        /\ db' = IF flash \in {MsgImported, MsgNoValidKeys, MsgMasterFailed}
                 THEN Insert(db, new_account) ELSE db
        /\ UNCHANGED <<credits, chain, config>>

import_account_StoresOnLookupFailure(current_user, username, password, posting_key, active_key, memo_key, lookupFails, iv1, iv2) ==
    LET flash == import_flash(current_user, username, password, posting_key,
                              active_key, memo_key, lookupFails)
        new_account == HiveAccount(NextId(db), username, Null,
                           encrypt(config.HIVE_ENCRYPTION_KEY, iv2, json_dumps(<<>>)),
                           current_user, "import")
    IN  /\ flash \in {MsgImported, MsgNotFoundOnChain} => NextId(db) <= MaxId
        /\ db' = IF flash \in {MsgImported, MsgNotFoundOnChain}
                 THEN Insert(db, new_account) ELSE db
        /\ UNCHANGED <<credits, chain, config>>

\* import_account: POST /import.
import_account(current_user, username, password, posting_key, active_key, memo_key, lookupFails, iv1, iv2) ==
    LET chk == ImportCheck(current_user, username, password, posting_key,
                           active_key, memo_key, lookupFails)
        flash == import_flash(current_user, username, password, posting_key,
                              active_key, memo_key, lookupFails)
        password_enc == IF password # ""
                        THEN encrypt(config.HIVE_ENCRYPTION_KEY, iv1, Plain(password))
                        ELSE Null
        new_account == HiveAccount(NextId(db), username, password_enc,
                           encrypt(config.HIVE_ENCRYPTION_KEY, iv2,
                                   json_dumps(chk.keys_to_save)),
                           current_user, "import")
    IN  /\ flash = MsgImported => NextId(db) <= MaxId
        /\ db' = IF flash = MsgImported THEN Insert(db, new_account) ELSE db
        /\ UNCHANGED <<credits, chain, config>>

view_response_KeyOracle(current_user, id, password_ok) ==
    IF \A r \in db : r.id # id THEN Flash(Http404)
    ELSE LET account == CHOOSE r \in db : r.id = id
             key == config.HIVE_ENCRYPTION_KEY
         IN  IF account.created_by_id # current_user THEN Flash(MsgUnauthorized)
             ELSE IF ~password_ok THEN Flash(MsgInvalidPassword)
             ELSE IF key = "" THEN Flash(MsgNoKeyToDecrypt)
             ELSE IF \E c \in {"password_enc", "keys_enc"} :
                        account[c].kind = "token" /\ account[c].key # key
                  THEN Flash(MsgNoKeyToDecrypt)
             ELSE IF \/ Truthy(account.password_enc) /\ ~DecryptOk(key, account.password_enc)
                     \/ ~DecryptOk(key, account.keys_enc)
                  THEN Flash(MsgDecryptFailed)
             ELSE [flash |-> "",
                   page |-> [password |-> IF Truthy(account.password_enc)
                                          THEN decrypt(key, account.password_enc) ELSE Null,
                             keys |-> decrypt(key, account.keys_enc)]]

\* view_account: POST /view/<id> with the login password (password_ok: it
\* is the user's); the response is the page of the decrypted password and
\* keys, or a redirect with a flashed message.  Both decrypt calls and
\* json.loads sit in one try block (lines 376-384).
view_response(current_user, id, password_ok) ==
    IF \A r \in db : r.id # id THEN Flash(Http404)
    ELSE LET account == CHOOSE r \in db : r.id = id
             key == config.HIVE_ENCRYPTION_KEY
         IN  IF account.created_by_id # current_user THEN Flash(MsgUnauthorized)
             ELSE IF ~password_ok THEN Flash(MsgInvalidPassword)
             ELSE IF key = "" THEN Flash(MsgNoKeyToDecrypt)
             ELSE IF \/ Truthy(account.password_enc) /\ ~DecryptOk(key, account.password_enc)
                     \/ ~DecryptOk(key, account.keys_enc)
                  THEN Flash(MsgDecryptFailed)
             ELSE [flash |-> "",
                   page |-> [password |-> IF Truthy(account.password_enc)
                                          THEN decrypt(key, account.password_enc) ELSE Null,
                             keys |-> decrypt(key, account.keys_enc)]]

\* view_account writes nothing.
view_account(current_user, id, password_ok) == UNCHANGED <<db, credits, chain, config>>

\* delete_account: the message the request ends with.
delete_flash(current_user, id) ==
    IF \A r \in db : r.id # id THEN Http404
    ELSE IF \E r \in db : r.id = id /\ r.created_by_id # current_user THEN MsgUnauthorized
    ELSE MsgRemoved

\* delete_account: POST /delete/<id>.
delete_account(current_user, id) ==
    /\ db' = IF delete_flash(current_user, id) = MsgRemoved
             THEN {r \in db : r.id # id} ELSE db
    /\ UNCHANGED <<credits, chain, config>>

\* The operator edits HIVE_ENCRYPTION_KEY in .env and restarts the
\* application (config.py line 34).
SetEncryptionKey(key) ==
    /\ config.HIVE_ENCRYPTION_KEY # key
    /\ config' = [config EXCEPT !.HIVE_ENCRYPTION_KEY = key]
    /\ UNCHANGED <<db, credits, chain>>

----------------------------------------------------------------------------
(* scripts/rotate_keys.py *)

\* HiveAccount.query.all(): the rows in primary-key order.
RECURSIVE query_all(_)
query_all(table) ==
    IF table = {} THEN <<>>
    ELSE LET first == CHOOSE r \in table : \A q \in table : r.id <= q.id
         IN  <<first>> \o query_all(table \ {first})

BackupEntry_NoKeys(acc) ==
    [id |-> acc.id, username |-> acc.username, password_enc |-> acc.password_enc,
     keys_enc |-> Null, created_by_id |-> acc.created_by_id]

BackupEntry_Decrypted(acc) ==
    [id |-> acc.id, username |-> acc.username,
     password_enc |-> IF acc.password_enc.kind = "token"
                      THEN acc.password_enc.body ELSE Null,
     keys_enc |-> acc.keys_enc, created_by_id |-> acc.created_by_id]

\* The dict backup_accounts appends for one row.
BackupEntry(acc) ==
    [id |-> acc.id, username |-> acc.username, password_enc |-> acc.password_enc,
     keys_enc |-> acc.keys_enc, created_by_id |-> acc.created_by_id]

\* backup_accounts(filename): the JSON file it writes.
backup_accounts(table) ==
    [written |-> TRUE,
     data |-> [i \in 1..Cardinality(table) |-> BackupEntry(query_all(table)[i])]]

NoBackup == [written |-> FALSE, data |-> <<>>]

\* What a reseal can do to the plaintext it is given.  rotate_keys does not
\* trust fernet_new.encrypt: it reopens every new token and compares (lines
\* 68-77), so a reseal is modelled with the outcome that check guards against,
\* a token that opens under new_key to something else.
Faults == {"none", "password", "keys"}
DamagedText(body) == [kind |-> "plain", text |-> "~"]
DamagedJson(body) == [kind |-> "plain", text |-> <<>>]

RotateOne_NoVerify(acc, old_key, new_key, iv1, iv2, fault) ==
    LET openP == Truthy(acc.password_enc)
        openK == Truthy(acc.keys_enc)
        decryptRaises == \/ openP /\ ~DecryptOk(old_key, acc.password_enc)
                         \/ openK /\ ~DecryptOk(old_key, acc.keys_enc)
        password == IF openP THEN decrypt(old_key, acc.password_enc) ELSE Null
        keys_json == IF openK THEN decrypt(old_key, acc.keys_enc) ELSE Null
    IN  IF decryptRaises
        THEN [acc |-> acc, raised |-> TRUE]
        ELSE [acc |-> [acc EXCEPT
                  !.password_enc = IF openP
                      THEN encrypt(new_key, iv1, IF fault = "password"
                                                 THEN DamagedText(password) ELSE password)
                      ELSE @,
                  !.keys_enc = IF openK
                      THEN encrypt(new_key, iv2, IF fault = "keys"
                                                 THEN DamagedJson(keys_json) ELSE keys_json)
                      ELSE @],
              raised |-> FALSE]

\* The body of the for loop of rotate_keys for one ORM object: the object as
\* the try block leaves it, and whether the block raised.
RotateOne(acc, old_key, new_key, iv1, iv2, fault) ==
    LET openP == Truthy(acc.password_enc)
        openK == Truthy(acc.keys_enc)
        decryptRaises == \/ openP /\ ~DecryptOk(old_key, acc.password_enc)
                         \/ openK /\ ~DecryptOk(old_key, acc.keys_enc)
        password == IF openP THEN decrypt(old_key, acc.password_enc) ELSE Null
        keys_json == IF openK THEN decrypt(old_key, acc.keys_enc) ELSE Null
        \* "if password:" is false for None and for the empty string
        sealP == openP /\ password.text # ""
        sealK == openK
        new_password_enc ==
            IF sealP
            THEN encrypt(new_key, iv1, IF fault = "password" THEN DamagedText(password) ELSE password)
            ELSE acc.password_enc
        new_keys_enc ==
            IF sealK
            THEN encrypt(new_key, iv2, IF fault = "keys" THEN DamagedJson(keys_json) ELSE keys_json)
            ELSE acc.keys_enc
        verifyRaises ==
            \/ sealP /\ (~DecryptOk(new_key, new_password_enc)
                         \/ decrypt(new_key, new_password_enc) # password)
            \/ sealK /\ (~DecryptOk(new_key, new_keys_enc)
                         \/ decrypt(new_key, new_keys_enc) # keys_json)
    IN  IF decryptRaises
        THEN [acc |-> acc, raised |-> TRUE]
        ELSE [acc |-> [acc EXCEPT !.password_enc = new_password_enc,
                                  !.keys_enc = new_keys_enc],
              raised |-> verifyRaises]

NoArgs == [old_key |-> "", new_key |-> "", dry_run |-> FALSE,
           ignore_errors |-> FALSE, no_backup |-> FALSE]

NoResp == [flash |-> "", page |-> Null]
NoReq == [op |-> "none"]

\* hist: started = the table when main began, before = the table just before
\* the batch decision, raced = a web request wrote the table while the run
\* was in flight, status = per loop iteration, "verified" (changed_count
\* incremented) or "failed" (errors incremented), rerun = the run repeats,
\* with the same command line, the run that committed just before it.
NoHist == [started |-> {}, before |-> {}, raced |-> FALSE, status |-> <<>>,
           rerun |-> FALSE]

\* main(): the command line is parsed, the keys are resolved and, unless
\* --no-backup, backup_accounts runs; rotate_keys is called next.  new_key
\* is the --new-key argument or the key Fernet.generate_key() returned.
main(old_arg, new_key, no_backup, dry_run, ignore_errors) ==
    /\ pc \in {"idle", "done"}
    /\ LET old_key == IF old_arg # "" THEN old_arg ELSE config.HIVE_ENCRYPTION_KEY
       IN  IF old_key = ""
           THEN /\ pc' = "done"
                /\ args' = NoArgs
                /\ backup' = NoBackup
                /\ hist' = NoHist
           ELSE /\ pc' = "rotate"
                /\ args' = [old_key |-> old_key, new_key |-> new_key,
                            dry_run |-> dry_run, ignore_errors |-> ignore_errors,
                            no_backup |-> no_backup]
                /\ backup' = IF no_backup THEN NoBackup ELSE backup_accounts(db)
                /\ hist' = [NoHist EXCEPT !.started = db,
                       !.rerun = /\ pc = "done" /\ outcome = "committed" /\ ~hist.raced
                                 /\ args = [old_key |-> old_key, new_key |-> new_key,
                                            dry_run |-> dry_run,
                                            ignore_errors |-> ignore_errors,
                                            no_backup |-> no_backup]]
    /\ accounts' = <<>>
    /\ loaded' = <<>>
    /\ idx' = 0
    /\ changed_count' = 0
    /\ errors' = 0
    /\ exit_code' = IF pc' = "done" THEN 0 ELSE -1
    /\ outcome' = "none"
    /\ UNCHANGED <<webVars, resp, req, siteVars>>

\* rotate_keys, lines 41-48: the query that loads every row into the session.
rotate_query ==
    /\ pc = "rotate"
    /\ pc' = "loop"
    /\ accounts' = query_all(db)
    /\ loaded' = query_all(db)
    /\ idx' = 1
    /\ changed_count' = 0
    /\ errors' = 0
    /\ UNCHANGED hist
    /\ UNCHANGED <<webVars, args, backup, exit_code, outcome, resp, req, siteVars>>

\* rotate_keys, lines 50-91: one iteration of the for loop.
rotate_step_AbortOnFailure(iv1, iv2, fault) ==
    /\ LET r == RotateOne(accounts[idx], args.old_key, args.new_key, iv1, iv2, fault)
       IN  /\ accounts' = [accounts EXCEPT ![idx] = r.acc]
           /\ changed_count' = IF r.raised THEN changed_count ELSE changed_count + 1
           /\ errors' = IF r.raised THEN errors + 1 ELSE errors
           /\ hist' = [hist EXCEPT !.status =
                          Append(@, IF r.raised THEN "failed" ELSE "verified")]
           /\ idx' = IF r.raised THEN Len(accounts) + 1 ELSE idx + 1
    /\ UNCHANGED <<webVars, pc, args, loaded, backup, exit_code, outcome, resp, req, siteVars>>

rotate_step(iv1, iv2, fault) ==
    /\ LET r == RotateOne(accounts[idx], args.old_key, args.new_key, iv1, iv2, fault)
       IN  /\ accounts' = [accounts EXCEPT ![idx] = r.acc]
           /\ changed_count' = IF r.raised THEN changed_count ELSE changed_count + 1
           /\ errors' = IF r.raised THEN errors + 1 ELSE errors
           /\ hist' = [hist EXCEPT !.status =
                          Append(@, IF r.raised THEN "failed" ELSE "verified")]
    /\ idx' = idx + 1
    /\ UNCHANGED <<webVars, pc, args, loaded, backup, exit_code, outcome, resp, req, siteVars>>

BatchDecision_NoDryRun(dry_run, ignore_errors, nerrors) ==
    IF nerrors > 0 /\ ~ignore_errors THEN "rolled_back" ELSE "committed"

\* rotate_keys, lines 93-110: which way the batch goes.
BatchDecision(dry_run, ignore_errors, nerrors) ==
    IF dry_run THEN "dry_run"
    ELSE IF nerrors > 0 /\ ~ignore_errors THEN "rolled_back"
    ELSE "committed"

\* The session's dirty objects: those with an attribute set to a new value.
Dirty(objs, asLoaded) == {i \in DOMAIN objs : objs[i] # asLoaded[i]}

\* db.session.commit(): one UPDATE ... WHERE id = ? per dirty object, setting
\* the changed columns; StaleDataError when an UPDATE matches no row.
CommitRaises(table, objs, asLoaded) ==
    \E i \in Dirty(objs, asLoaded) : \A r \in table : r.id # objs[i].id

Commit_KeysOnly(table, objs, asLoaded) ==
    {IF \E i \in Dirty(objs, asLoaded) : objs[i].id = r.id
     THEN LET i == CHOOSE j \in Dirty(objs, asLoaded) : objs[j].id = r.id
          IN  [r EXCEPT !.keys_enc = objs[i].keys_enc]
     ELSE r : r \in table}

Commit_FirstOnly(table, objs, asLoaded) ==
    {IF \E i \in Dirty(objs, asLoaded) : objs[i].id = r.id /\ i = 1
     THEN [r EXCEPT !.password_enc = objs[1].password_enc, !.keys_enc = objs[1].keys_enc]
     ELSE r : r \in table}

Commit(table, objs, asLoaded) ==
    {IF \E i \in Dirty(objs, asLoaded) : objs[i].id = r.id
     THEN LET i == CHOOSE j \in Dirty(objs, asLoaded) : objs[j].id = r.id
          IN  [r EXCEPT !.password_enc = IF objs[i].password_enc # asLoaded[i].password_enc
                                         THEN objs[i].password_enc ELSE @,
                        !.keys_enc = IF objs[i].keys_enc # asLoaded[i].keys_enc
                                     THEN objs[i].keys_enc ELSE @]
     ELSE r : r \in table}

Rollback_Flushed(table, objs, asLoaded) == Commit(table, objs, asLoaded)

\* db.session.rollback(): the session's changes are dropped.
Rollback(table, objs, asLoaded) == table

\* What rotate_keys prints after the loop (lines 93-113), as the facts its
\* lines state: which way the batch went, the two counters, and, on a commit
\* with errors, the notice that errors were ignored.
Printed(result, nchanged, nerrors) ==
    IF result = "dry_run"
    THEN [mode |-> "dry_run", would_update |-> nchanged, errors |-> nerrors]
    ELSE IF result = "rolled_back"
    THEN [mode |-> "rolled_back", errors |-> nerrors]
    ELSE IF result = "committed" /\ nerrors > 0
    THEN [mode |-> "committed", errors_ignored |-> nerrors, rotated |-> nchanged]
    ELSE IF result = "committed"
    THEN [mode |-> "committed", rotated |-> nchanged]
    ELSE [mode |-> result]

\* The status the process exits with: main returns normally (status 0) on
\* every path of rotate_keys; an uncaught exception gives status 1.
ExitStatus(result) == IF result = "crashed" THEN 1 ELSE 0

\* rotate_keys, lines 93-113, and the return through main.
rotate_decide ==
    /\ pc = "loop"
    /\ idx > Len(accounts)
    /\ LET decision == BatchDecision(args.dry_run, args.ignore_errors, errors)
           result == IF decision = "committed" /\ CommitRaises(db, accounts, loaded)
                     THEN "crashed" ELSE decision
       IN  /\ outcome' = result
           /\ db' = IF result = "committed" THEN Commit(db, accounts, loaded)
                    ELSE Rollback(db, accounts, loaded)
           /\ exit_code' = ExitStatus(result)
    /\ pc' = "done"
    /\ hist' = [hist EXCEPT !.before = db]
    /\ UNCHANGED <<credits, chain, config, args, accounts, loaded, idx,
                   changed_count, errors, backup, resp, req, siteVars>>

----------------------------------------------------------------------------
(* PayPal orders: paypal/routes.py, paypal/services.py, webhooks/routes.py, *)
(* tasks.py.  A request that fulfils an order runs in a worker with its own *)
(* database session: it reads the order, flushes the new status and reads   *)
(* the user inside a write transaction, and commits.  The database admits   *)
(* one write transaction at a time; a read sees committed rows only.        *)

MaxQty == 2
MaxCredits == 5

OrderIds == {"O1"}
Workers == {"w1", "w2"}
EventTypes == {"PAYMENT.CAPTURE.COMPLETED", "PAYMENT.CAPTURE.REFUNDED",
               "PAYMENT.CAPTURE.DENIED"}

PayPalOrder(user_id, paypal_order_id, credits_purchased, status) ==
    [user_id |-> user_id, paypal_order_id |-> paypal_order_id,
     credits_purchased |-> credits_purchased, status |-> status,
     created_at |-> BootTime]

\* PayPalOrder.query.filter_by(paypal_order_id=...): the rows that match.
OrdersById(table, paypal_order_id) == {o \in table : o.paypal_order_id = paypal_order_id}

IdleRequest == [pc |-> "idle"]

NoAudit ==
    [purchased |-> [o \in OrderIds |-> 0], added |-> [o \in OrderIds |-> 0],
     seen |-> {}, overlap |-> FALSE, replayed |-> FALSE, claimed |-> {}]

\* Some worker holds the write transaction of the database.
WriteLocked == \E w \in Workers : hook[w].pc = "flushed"

\* The request of worker w starts while another request is in flight.
Overlaps(w) == \E v \in Workers \ {w} : hook[v].pc # "idle"

\* create_order: PayPal issues the order id, the pending order is saved.
create_order(current_user, quantity, paypal_order_id) ==
    /\ ~WriteLocked
    /\ audit.purchased[paypal_order_id] = 0
    /\ LET credits_qty == IF quantity < 1 THEN 1 ELSE quantity
       IN  /\ orders' = orders \cup
                   {PayPalOrder(current_user, paypal_order_id, credits_qty, "CREATED")}
           /\ audit' = [audit EXCEPT !.purchased[paypal_order_id] = credits_qty]
    /\ UNCHANGED <<webVars, rotVars, hist, resp, req, deskVars, hook, uptime>>

\* The test both fulfilment paths make on the refreshed order.
AlreadyCompleted_Never(order) == FALSE

AlreadyCompleted(order) == order.status = "COMPLETED"

\* What the request does with the order it loaded: nothing, grant the
\* credits, or only write a status.
Decision(event_type, order) ==
    CASE event_type \in {"PAYMENT.CAPTURE.COMPLETED", "fulfill_order"} ->
             IF AlreadyCompleted(order) THEN IdleRequest
             ELSE [pc |-> "credit", order |-> order]
      [] event_type = "PAYMENT.CAPTURE.REFUNDED" ->
             IF order.status = "COMPLETED"
             THEN [pc |-> "commit", order |-> order, status |-> "REFUNDED"]
             ELSE IdleRequest
      [] event_type = "PAYMENT.CAPTURE.DENIED" ->
             [pc |-> "commit", order |-> order, status |-> "DENIED"]

\* The start of a fulfilment request, up to the test of the order's status.
\* An unknown order id ends the request (404, or "Order not found").
Lookup(w, event_type, order_id) ==
    /\ hook[w].pc = "idle"
    /\ LET found == OrdersById(orders, order_id)
       IN  /\ hook' = [hook EXCEPT ![w] =
                          IF found = {} THEN IdleRequest
                          ELSE Decision(event_type, CHOOSE o \in found : TRUE)]
           /\ audit' = [audit EXCEPT
                          !.seen = @ \cup {event_type},
                          !.overlap = @ \/ Overlaps(w),
                          !.replayed = @ \/ (/\ event_type \in {"PAYMENT.CAPTURE.COMPLETED",
                                                                "fulfill_order"}
                                             /\ \E o \in found : o.status = "COMPLETED")]
    /\ UNCHANGED <<webVars, rotVars, hist, resp, req, deskVars, orders, uptime>>

\* paypal_webhook, from the order lookup to the test of the status.
paypal_webhook(w, event_type, order_id) == Lookup(w, event_type, order_id)

\* fulfill_order, from the order lookup to the test of the status.
fulfill_order(w, paypal_order_id) == Lookup(w, "fulfill_order", paypal_order_id)

\* order.status = "COMPLETED" is flushed when the user is queried: the
\* write transaction begins, and the user's credits are read inside it.
\* A row deleted since it was loaded makes the flush raise.
credit_user(w) ==
    /\ hook[w].pc = "credit"
    /\ ~WriteLocked
    /\ LET order == hook[w].order
       IN  IF OrdersById(orders, order.paypal_order_id) = {}
           THEN hook' = [hook EXCEPT ![w] = IdleRequest]
           ELSE /\ credits[order.user_id] + order.credits_purchased <= MaxCredits
                /\ hook' = [hook EXCEPT ![w] =
                               [pc |-> "flushed", order |-> order,
                                account_credits |-> credits[order.user_id]
                                                        + order.credits_purchased]]
    /\ UNCHANGED <<webVars, rotVars, hist, resp, req, deskVars, orders, uptime, audit>>

\* db.session.commit() of a fulfilment request.
commit(w) ==
    /\ LET order == hook[w].order
           others == {o \in orders : o.paypal_order_id # order.paypal_order_id}
       IN  \/ /\ hook[w].pc = "flushed"
              /\ orders' = others \cup {[order EXCEPT !.status = "COMPLETED"]}
              /\ credits' = [credits EXCEPT ![order.user_id] = hook[w].account_credits]
              /\ audit' = [audit EXCEPT !.added[order.paypal_order_id] =
                                            @ + order.credits_purchased]
           \/ /\ hook[w].pc = "commit"
              /\ ~WriteLocked
              /\ orders' = IF others = orders THEN orders
                           ELSE others \cup {[order EXCEPT !.status = hook[w].status]}
              /\ UNCHANGED <<credits, audit>>
    /\ hook' = [hook EXCEPT ![w] = IdleRequest]
    /\ UNCHANGED <<db, chain, config, rotVars, hist, resp, req, deskVars, uptime>>

\* run_paypal_maintenance: pending orders older than 24 hours expire, then
\* expired, failed and denied orders older than 30 days are deleted.  Every
\* row's created_at is the time the application started.
run_paypal_maintenance ==
    /\ ~WriteLocked
    /\ LET expired == {o \in orders : o.status = "CREATED" /\ uptime # "hours"}
           flushed == (orders \ expired) \cup {[o EXCEPT !.status = "EXPIRED"] : o \in expired}
           orders_to_delete == {o \in flushed : /\ o.status \in {"EXPIRED", "FAILED", "DENIED"}
                                                /\ uptime = "months"}
       IN  orders' = flushed \ orders_to_delete
    /\ audit' = [audit EXCEPT !.overlap = @ \/ \E w \in Workers : hook[w].pc # "idle"]
    /\ UNCHANGED <<webVars, rotVars, hist, resp, req, deskVars, hook, uptime>>

\* Time passes.
Elapse ==
    /\ uptime # "months"
    /\ uptime' = IF uptime = "hours" THEN "days" ELSE "months"
    /\ UNCHANGED <<webVars, rotVars, hist, resp, req, deskVars, orders, hook, audit>>

----------------------------------------------------------------------------
(* create of account/routes.py as its requests interleave: a worker loads   *)
(* the user with the session of its request, talks to the blockchain, and   *)
(* commits the new row and the user's credits at the end.                   *)

\* create, lines 42-61: the user is loaded and the form is validated.
create_load(w, current_user, username, password) ==
    /\ hook[w].pc = "idle"
    /\ LET flash == IF credits[current_user] < 1 THEN MsgNoCredits
                    ELSE IF ~is_valid_hive_username(username) THEN MsgInvalidUsername
                    ELSE IF password = "" THEN MsgPasswordRequired
                    ELSE ""
       IN  hook' = [hook EXCEPT ![w] =
                       IF flash # "" THEN IdleRequest
                       ELSE [pc |-> "claim", current_user |-> current_user,
                             account_credits |-> credits[current_user],
                             username |-> username, password |-> password]]
    /\ audit' = [audit EXCEPT !.overlap = @ \/ Overlaps(w)]
    /\ UNCHANGED <<webVars, rotVars, hist, resp, req, deskVars, orders, uptime>>

\* create, lines 63-89: the name is looked up on the chain and the claimed
\* account is broadcast.
create_claim(w, lookupFails, broadcastFails) ==
    /\ hook[w].pc = "claim"
    /\ LET username == hook[w].username
           flash == IF ~lookupFails /\ chain[username].exists THEN MsgUsernameExists
                    ELSE IF ~config.HIVE_CLAIMER_KEY THEN MsgNoClaimer
                    ELSE IF broadcastFails \/ chain[username].exists THEN MsgCreationFailed
                    ELSE ""
       IN  IF flash # ""
           THEN /\ hook' = [hook EXCEPT ![w] = IdleRequest]
                /\ UNCHANGED <<chain, audit>>
           ELSE /\ hook' = [hook EXCEPT ![w].pc = "save"]
                /\ chain' = [chain EXCEPT
                                ![username] = ClaimedAccount(username, hook[w].password)]
                /\ audit' = [audit EXCEPT !.claimed = @ \cup
                                {[username |-> username, by |-> hook[w].current_user]}]
    /\ UNCHANGED <<db, credits, config, rotVars, hist, resp, req, deskVars, orders, uptime>>

\* create, lines 91-125: the keys are derived and sealed, the credit is
\* taken from the user as loaded, the row and the user are committed.
\* Without an encryption key the request ends before it writes.
create_save(w, iv1, iv2) ==
    /\ hook[w].pc = "save"
    /\ LET username == hook[w].username
           password == hook[w].password
           keys == KeysJson(CreateRoles,
                       [role \in {"owner", "active", "posting", "memo"} |->
                           PasswordKey(username, password, role)])
           new_account == HiveAccount(NextId(db), username,
               encrypt(config.HIVE_ENCRYPTION_KEY, iv1, Plain(password)),
               encrypt(config.HIVE_ENCRYPTION_KEY, iv2, json_dumps(keys)),
               hook[w].current_user, "trx:" \o username)
       IN  IF config.HIVE_ENCRYPTION_KEY = "" \/ ~InsertOk(db, new_account)
           THEN UNCHANGED <<db, credits>>
           ELSE /\ ~WriteLocked
                /\ NextId(db) <= MaxId
                /\ db' = Insert(db, new_account)
                /\ credits' = [credits EXCEPT
                                  ![hook[w].current_user] = hook[w].account_credits - 1]
    /\ hook' = [hook EXCEPT ![w] = IdleRequest]
    /\ UNCHANGED <<chain, config, rotVars, hist, resp, req, deskVars, orders, uptime, audit>>

----------------------------------------------------------------------------
(* Groups and their members: groups/routes.py and admin/routes.py.  The    *)
(* handlers are served one at a time.                                      *)

\* The users with User.is_admin set, and the users' names.
Admins == {2}
is_admin(u) == u \in Admins
Usernames == [u \in Users |-> IF u = 1 THEN "ann" ELSE "root"]
UsersByName(username) == {u \in Users : Usernames[u] = username}

GroupNames == {"g1", "g2"}

Group(id, name, owner_user_id) == [id |-> id, name |-> name, owner_user_id |-> owner_user_id]
GroupMember(group_id, user_id, role) == [group_id |-> group_id, user_id |-> user_id, role |-> role]

\* Group.query.get(id) and GroupMember.query.filter_by(group_id, user_id).
GroupsById(id) == {g \in groups : g.id = id}
Membership(group_id, user_id) ==
    {m \in group_members : m.group_id = group_id /\ m.user_id = user_id}

\* membership.role, or "" when there is no membership.
RoleOf(group_id, user_id) ==
    IF Membership(group_id, user_id) = {} THEN ""
    ELSE (CHOOSE m \in Membership(group_id, user_id) : TRUE).role

\* groups create: the group is inserted with its creator as owner, and the
\* creator's GroupMember row with role "owner" in the same commit.
group_create(current_user, name) ==
    /\ IF name = "" \/ \E g \in groups : g.name = name
       THEN UNCHANGED <<groups, group_members>>
       ELSE LET id == NextId(groups)
            IN  /\ groups' = groups \cup {Group(id, name, current_user)}
                /\ group_members' = group_members \cup {GroupMember(id, current_user, "owner")}
    /\ UNCHANGED <<vaultVars, payVars, drafts, versions>>

\* groups edit_group: name, description and tags, by the owner or an admin.
edit_group(current_user, id, name) ==
    /\ IF \/ GroupsById(id) = {}
          \/ RoleOf(id, current_user) \notin {"owner", "admin"} /\ ~is_admin(current_user)
          \/ name = ""
          \/ \E g \in groups : g.id # id /\ g.name = name
       THEN UNCHANGED groups
       ELSE groups' = {IF g.id = id THEN [g EXCEPT !.name = name] ELSE g : g \in groups}
    /\ UNCHANGED <<vaultVars, payVars, group_members, drafts, versions>>

add_member(current_user, id, username) ==
    /\ IF \/ GroupsById(id) = {}
          \/ RoleOf(id, current_user) \notin {"owner", "admin"} /\ ~is_admin(current_user)
          \/ UsersByName(username) = {}
          \/ \E u \in UsersByName(username) : Membership(id, u) # {}
       THEN UNCHANGED group_members
       ELSE group_members' = group_members \cup
                {GroupMember(id, CHOOSE u \in UsersByName(username) : TRUE, "member")}
    /\ UNCHANGED <<vaultVars, payVars, groups, drafts, versions>>

remove_member(current_user, id, user_id) ==
    /\ IF \/ GroupsById(id) = {}
          \/ RoleOf(id, current_user) # "owner" /\ ~is_admin(current_user)
          \/ \E g \in GroupsById(id) : user_id = g.owner_user_id
       THEN UNCHANGED group_members
       ELSE group_members' = group_members \ Membership(id, user_id)
    /\ UNCHANGED <<vaultVars, payVars, groups, drafts, versions>>

\* The role a promotion or a demotion leaves a member with.
Promoted(role) == IF role = "member" THEN "editor"
                  ELSE IF role = "editor" THEN "moderator" ELSE role
Demoted(role) == IF role = "moderator" THEN "editor"
                 ELSE IF role = "editor" THEN "member" ELSE role

\* promote_member and demote_member: by the owner or an admin.
promote_member(current_user, id, user_id) ==
    /\ IF \/ GroupsById(id) = {}
          \/ RoleOf(id, current_user) # "owner" /\ ~is_admin(current_user)
          \/ Membership(id, user_id) = {}
       THEN UNCHANGED group_members
       ELSE group_members' = {IF m \in Membership(id, user_id)
                        THEN [m EXCEPT !.role = Promoted(@)] ELSE m : m \in group_members}
    /\ UNCHANGED <<vaultVars, payVars, groups, drafts, versions>>

demote_member(current_user, id, user_id) ==
    /\ IF \/ GroupsById(id) = {}
          \/ RoleOf(id, current_user) # "owner" /\ ~is_admin(current_user)
          \/ Membership(id, user_id) = {}
       THEN UNCHANGED group_members
       ELSE group_members' = {IF m \in Membership(id, user_id)
                        THEN [m EXCEPT !.role = Demoted(@)] ELSE m : m \in group_members}
    /\ UNCHANGED <<vaultVars, payVars, groups, drafts, versions>>

\* admin edit_group: an admin sets the name and the owner, who is named by
\* username.  An unknown owner name ends the request without a commit; a
\* name another group holds fails the commit.
admin_edit_group(current_user, group_id, name, owner_username) ==
    /\ IF \/ ~is_admin(current_user)
          \/ GroupsById(group_id) = {}
          \/ name = "" \/ owner_username = ""
          \/ UsersByName(owner_username) = {}
          \/ \E g \in groups : g.id # group_id /\ g.name = name
       THEN UNCHANGED groups
       ELSE groups' = {IF g.id = group_id
                       THEN [g EXCEPT !.name = name,
                                      !.owner_user_id =
                                          CHOOSE u \in UsersByName(owner_username) : TRUE]
                       ELSE g : g \in groups}
    /\ UNCHANGED <<vaultVars, payVars, group_members, drafts, versions>>

----------------------------------------------------------------------------
(* Drafts: drafts/routes.py.  The versions of a draft are snapshots kept    *)
(* in a document store, numbered per draft id.  assign_author, which writes *)
(* author_user_id only, is left out.                                        *)

MaxDrafts == 1
MaxVersions == 3

Titles == {"Hello World", "news"}
Bodies == {"b1", "b2"}
Tags == {"eco"}
Salts == {"k7q2"}

\* generate_permlink: the title in lower case with its spaces as dashes,
\* then a dash and four random characters.
Slug(title) == IF title = "Hello World" THEN "hello-world" ELSE title
generate_permlink(title, salt) == Slug(title) \o "-" \o salt

Draft(id, group_id, author_user_id, title, body, tags, permlink, status) ==
    [id |-> id, group_id |-> group_id, author_user_id |-> author_user_id,
     title |-> title, body |-> body, tags |-> tags, permlink |-> permlink,
     status |-> status]

DraftsById(draft_id) == {d \in drafts : d.id = draft_id}

\* DraftVersion.objects(draft_id=..., version_number=...).
VersionsOf(draft_id) == {v \in versions : v.draft_id = draft_id}

\* _save_draft_version: a snapshot of the draft under the next number.
save_draft_version(draft) ==
    versions \cup
        {[draft_id |-> draft.id,
          version_number |-> SetMax({v.version_number : v \in VersionsOf(draft.id)}) + 1,
          title |-> draft.title, body |-> draft.body, tags |-> draft.tags]}

\* drafts create for a group; linked says whether the chosen Hive account
\* is one of the group's resources.
draft_create(current_user, group_id, title, body, tags, linked, salt) ==
    /\ IF \/ GroupsById(group_id) = {}
          \/ Membership(group_id, current_user) = {} /\ ~is_admin(current_user)
          \/ title = "" \/ body = ""
          \/ ~linked
       THEN UNCHANGED <<drafts, versions>>
       ELSE LET draft == Draft(NextId(drafts), group_id, current_user, title, body, tags,
                               generate_permlink(title, salt), "draft")
            IN  /\ NextId(drafts) <= MaxDrafts
                /\ Cardinality(versions) < MaxVersions
                /\ drafts' = drafts \cup {draft}
                /\ versions' = save_draft_version(draft)
    /\ UNCHANGED <<vaultVars, payVars, groups, group_members>>

\* Who may edit a draft: an admin, a member with an editing role, or the
\* draft's author.
CanEdit(current_user, draft) ==
    \/ is_admin(current_user)
    \/ RoleOf(draft.group_id, current_user) \in {"owner", "admin", "moderator", "editor"}
    \/ draft.author_user_id = current_user

edit(current_user, draft_id, title, body, tags, salt) ==
    /\ IF DraftsById(draft_id) = {}
       THEN UNCHANGED <<drafts, versions>>
       ELSE LET draft == CHOOSE d \in DraftsById(draft_id) : TRUE
            IN  IF \/ Membership(draft.group_id, current_user) = {} /\ ~is_admin(current_user)
                   \/ ~CanEdit(current_user, draft)
                   \/ draft.status = "published"
                THEN UNCHANGED <<drafts, versions>>
                ELSE /\ Cardinality(versions) < MaxVersions
                     /\ versions' = save_draft_version(draft)
                     /\ drafts' = (drafts \ {draft}) \cup
                            {[draft EXCEPT
                                !.permlink = IF title # "" /\ title # draft.title
                                                /\ draft.status # "published"
                                             THEN generate_permlink(title, salt) ELSE @,
                                !.title = title, !.body = body, !.tags = tags]}
    /\ UNCHANGED <<vaultVars, payVars, groups, group_members>>

\* restore: the draft takes the title, body and tags of one of its versions,
\* after its current state is saved as a new version.
restore(current_user, draft_id, version_num) ==
    /\ IF DraftsById(draft_id) = {}
       THEN UNCHANGED <<drafts, versions>>
       ELSE LET draft == CHOOSE d \in DraftsById(draft_id) : TRUE
                role == RoleOf(draft.group_id, current_user)
                can_edit ==
                    \/ is_admin(current_user)
                    \/ /\ Membership(draft.group_id, current_user) # {}
                       /\ \/ role \in {"owner", "admin", "moderator", "editor"}
                          \/ draft.author_user_id = current_user
                found == {v \in VersionsOf(draft_id) : v.version_number = version_num}
            IN  IF ~can_edit \/ found = {}
                THEN UNCHANGED <<drafts, versions>>
                ELSE LET version == CHOOSE v \in found : TRUE
                     IN  /\ Cardinality(versions) < MaxVersions
                         /\ versions' = save_draft_version(draft)
                         /\ drafts' = (drafts \ {draft}) \cup
                                {[draft EXCEPT !.title = version.title,
                                               !.body = version.body,
                                               !.tags = version.tags]}
    /\ UNCHANGED <<vaultVars, payVars, groups, group_members>>

\* reject: the draft is deleted; its versions stay in the document store.
reject(current_user, draft_id) ==
    /\ IF DraftsById(draft_id) = {}
       THEN UNCHANGED drafts
       ELSE LET draft == CHOOSE d \in DraftsById(draft_id) : TRUE
                role == RoleOf(draft.group_id, current_user)
                can_delete ==
                    \/ is_admin(current_user)
                    \/ /\ Membership(draft.group_id, current_user) # {}
                       /\ \/ role \in {"owner", "admin", "moderator"}
                          \/ draft.author_user_id = current_user
            IN  IF ~can_delete \/ draft.status = "published"
                THEN UNCHANGED drafts
                ELSE drafts' = drafts \ {draft}
    /\ UNCHANGED <<vaultVars, payVars, groups, group_members, versions>>

\* submit: the draft is posted to Hive and marked published.  posted is the
\* outcome of fetching the account's posting key and of the broadcast.
submit(current_user, draft_id, posted) ==
    /\ IF DraftsById(draft_id) = {}
       THEN UNCHANGED drafts
       ELSE LET draft == CHOOSE d \in DraftsById(draft_id) : TRUE
                role == RoleOf(draft.group_id, current_user)
            IN  IF \/ ~is_admin(current_user) /\ role \notin {"owner", "admin", "moderator"}
                   \/ draft.status = "published"
                   \/ ~posted
                THEN UNCHANGED drafts
                ELSE drafts' = (drafts \ {draft}) \cup {[draft EXCEPT !.status = "published"]}
    /\ UNCHANGED <<vaultVars, payVars, groups, group_members, versions>>

----------------------------------------------------------------------------
(* Specifications *)

InitWeb ==
    /\ db = {}
    /\ credits = [u \in Users |-> InitCredits]
    /\ chain = [n \in WellFormedUsernames |->
                   IF n = "alice" THEN AliceOnChain ELSE NoAccount]

InitRot ==
    /\ pc = "idle"
    /\ args = NoArgs
    /\ accounts = <<>>
    /\ loaded = <<>>
    /\ idx = 0
    /\ changed_count = 0
    /\ errors = 0
    /\ backup = NoBackup
    /\ exit_code = -1
    /\ outcome = "none"
    /\ hist = NoHist
    /\ resp = NoResp
    /\ req = NoReq

\* No order was placed and no fulfilment request is in flight.
InitPay ==
    /\ orders = {}
    /\ hook = [w \in Workers |-> IdleRequest]
    /\ uptime = "hours"
    /\ audit = NoAudit

\* No group was founded and no draft written.
InitDesk ==
    /\ groups = {}
    /\ group_members = {}
    /\ drafts = {}
    /\ versions = {}

InitSite == InitPay /\ InitDesk

\* A web request next to the rotation process: the report of a finished run
\* is read until the table is written again.
Beside(request) ==
    /\ request
    /\ IF pc = "done"
       THEN /\ pc' = "idle"
            /\ args' = NoArgs
            /\ accounts' = <<>>
            /\ loaded' = <<>>
            /\ idx' = 0
            /\ changed_count' = 0
            /\ errors' = 0
            /\ backup' = NoBackup
            /\ exit_code' = -1
            /\ outcome' = "none"
            /\ hist' = NoHist
       ELSE /\ UNCHANGED rotVars
            /\ hist' = [hist EXCEPT !.raced = @ \/ (pc \in {"rotate", "loop"} /\ db' # db)]

\* A web request whose response is observed: resp is what the client
\* receives, req is the log of the request.
Served(request, response, log) ==
    /\ Beside(request)
    /\ resp' = response
    /\ req' = log
    /\ UNCHANGED siteVars

\* A web request whose response goes to a client that is not observed.
Unobserved(request) ==
    /\ Beside(request)
    /\ UNCHANGED <<resp, req, siteVars>>

\* The inputs of the web forms.
FormPasswords == Passwords \cup {""}
PostingKeys == {"", PasswordKey("alice", "p1", "posting"), AlicePosting2Wif,
                AliceActiveWif, "not-a-wif"}
ActiveKeys == {"", AliceActiveWif, PasswordKey("alice", "p1", "active"), "not-a-wif"}
MemoKeys == {"", PasswordKey("alice", "p1", "memo"), AliceActiveWif, "not-a-wif"}

Create ==
    \E u \in Users, n \in FormUsernames, p \in FormPasswords,
       lookupFails \in BOOLEAN, broadcastFails \in BOOLEAN, iv1 \in WebIVs, iv2 \in WebIVs :
        Unobserved(create(u, n, p, lookupFails, broadcastFails, iv1, iv2))

\* import_account with a master password: the key fields are not read.
ImportByPassword ==
    \E u \in Users, n \in FormUsernames, p \in Passwords, pk \in {"", "not-a-wif"},
       lookupFails \in BOOLEAN, iv1 \in WebIVs, iv2 \in WebIVs :
        Unobserved(import_account(u, n, p, pk, "", "", lookupFails, iv1, iv2))

\* import_account with individual keys.
ImportByKeys ==
    \E u \in Users, n \in FormUsernames,
       pk \in PostingKeys, ak \in ActiveKeys, mk \in MemoKeys,
       lookupFails \in BOOLEAN, iv2 \in WebIVs :
        Unobserved(import_account(u, n, "", pk, ak, mk, lookupFails, iv2, iv2))

Delete ==
    \E u \in Users, id \in 1..MaxId : Unobserved(delete_account(u, id))

Reconfigure ==
    \E k \in {"K1", ""} : Unobserved(SetEncryptionKey(k))

\* The vault as the web application drives it.
Init ==
    /\ InitWeb
    /\ config = [HIVE_ENCRYPTION_KEY |-> "K1", HIVE_CLAIMER_KEY |-> TRUE]
    /\ InitRot
    /\ InitSite

Next == Create \/ ImportByPassword \/ ImportByKeys \/ Delete \/ Reconfigure

Spec == Init /\ [][Next]_vars

\* The rotation script next to the web application.  The web requests are
\* those of one user: an import of alice by posting key (no password is
\* stored), the creation of bob (password and keys are stored), and the
\* operator switching the application's key.  The responses go to the web
\* clients; the rotation script does not see them.
RotCreate ==
    \E lookupFails \in BOOLEAN, iv1 \in WebIVs, iv2 \in WebIVs :
        Unobserved(create(1, "bob", "p1", lookupFails, FALSE, iv1, iv2))

RotImport ==
    \E pk \in {PasswordKey("alice", "p1", "posting"), "not-a-wif"}, iv2 \in WebIVs :
        Unobserved(import_account(1, "alice", "", pk, "", "", FALSE, iv2, iv2))

RotReconfigure ==
    \E k \in CipherKeys : Unobserved(SetEncryptionKey(k))

Main ==
    \E old_arg \in CipherKeys \cup {""}, new_key \in CipherKeys,
       no_backup \in BOOLEAN, dry_run \in BOOLEAN, ignore_errors \in BOOLEAN :
        main(old_arg, new_key, no_backup, dry_run, ignore_errors)

RotateStep ==
    /\ pc = "loop"
    /\ idx <= Len(accounts)
    /\ \E iv1 \in FreshIVs(accounts[idx].password_enc),
       iv2 \in FreshIVs(accounts[idx].keys_enc), fault \in Faults :
        rotate_step(iv1, iv2, fault)

RotInit ==
    /\ InitWeb
    /\ config = [HIVE_ENCRYPTION_KEY |-> "K1", HIVE_CLAIMER_KEY |-> TRUE]
    /\ InitRot
    /\ InitSite

RotNext ==
    \/ RotCreate \/ RotImport \/ RotReconfigure
    \/ Main \/ rotate_query \/ RotateStep \/ rotate_decide

RotSpec == RotInit /\ [][RotNext]_vars

\* The import form as its users drive it: every request is logged with its
\* form values and the table it found, next to its response.
ImportLog(u, n, p, pk, ak, mk, lookupFails) ==
    [op |-> "import", user |-> u, username |-> n, password |-> p, posting_key |-> pk,
     active_key |-> ak, memo_key |-> mk, lookupFails |-> lookupFails, before |-> db]

SubmitPassword ==
    \E u \in Users, n \in FormUsernames, p \in Passwords,
       lookupFails \in BOOLEAN, iv1 \in WebIVs, iv2 \in WebIVs :
        Served(import_account(u, n, p, "", "", "", lookupFails, iv1, iv2),
               Flash(import_flash(u, n, p, "", "", "", lookupFails)),
               ImportLog(u, n, p, "", "", "", lookupFails))

SubmitKeys ==
    \E u \in Users, pk \in PostingKeys, ak \in ActiveKeys, mk \in MemoKeys,
       lookupFails \in BOOLEAN, iv2 \in WebIVs :
        Served(import_account(u, "alice", "", pk, ak, mk, lookupFails, iv2, iv2),
               Flash(import_flash(u, "alice", "", pk, ak, mk, lookupFails)),
               ImportLog(u, "alice", "", pk, ak, mk, lookupFails))

Remove ==
    \E u \in Users, id \in 1..MaxId :
        Served(delete_account(u, id), Flash(delete_flash(u, id)),
               [op |-> "delete", user |-> u, id |-> id, before |-> db])

ImportInit == Init

ImportNext == SubmitPassword \/ SubmitKeys \/ Remove

ImportSpec == ImportInit /\ [][ImportNext]_vars

\* The table as both users write it with create, import_account and
\* delete_account, every request logged next to its response.
StoreCreate ==
    \E u \in Users, n \in WellFormedUsernames, lookupFails \in BOOLEAN,
       iv1 \in WebIVs, iv2 \in WebIVs :
        Served(create(u, n, "p1", lookupFails, FALSE, iv1, iv2),
               Flash(create_flash(u, n, "p1", lookupFails, FALSE)),
               [op |-> "create", user |-> u, username |-> n, before |-> db])

StoreImport ==
    \E u \in Users, n \in WellFormedUsernames, p \in {"", "p1"},
       iv1 \in WebIVs, iv2 \in WebIVs :
        LET pk == IF p = "" THEN PasswordKey(n, "p1", "posting") ELSE ""
        IN  Served(import_account(u, n, p, pk, "", "", FALSE, iv1, iv2),
                   Flash(import_flash(u, n, p, pk, "", "", FALSE)),
                   ImportLog(u, n, p, pk, "", "", FALSE))

StoreDelete ==
    \E u \in Users, id \in 1..MaxId :
        Served(delete_account(u, id), Flash(delete_flash(u, id)),
               [op |-> "delete", user |-> u, id |-> id, before |-> db])

StoreInit == Init

StoreNext == StoreCreate \/ StoreImport \/ StoreDelete

StoreSpec == StoreInit /\ [][StoreNext]_vars

\* The stored text of a secret-bearing column changed outside the
\* application: a token whose bytes were altered (its signature no longer
\* verifies), or text that is no Fernet token at all.
Tampered(token) == [token EXCEPT !.kind = "tampered"]
Malformed == Plain("not-a-token")

corrupt(id, column, how) ==
    /\ \E r \in db :
          /\ r.id = id
          /\ r[column].kind = "token"
          /\ db' = (db \ {r}) \cup
                   {[r EXCEPT ![column] = IF how = "tampered" THEN Tampered(@) ELSE Malformed]}
    /\ UNCHANGED <<credits, chain, config>>

\* The view page as its users drive it, over a table whose rows were made
\* by create and import_account and whose stored text can go bad.
ViewLog(u, id, password_ok) ==
    [op |-> "view", user |-> u, id |-> id, password_ok |-> password_ok,
     key |-> config.HIVE_ENCRYPTION_KEY, before |-> db]

ViewCreate ==
    \E iv1 \in WebIVs, iv2 \in WebIVs :
        Unobserved(create(1, "bob", "p1", FALSE, FALSE, iv1, iv2))

ViewImport ==
    \E iv2 \in WebIVs :
        Unobserved(import_account(2, "alice", "", AlicePosting2Wif, "", "", FALSE, iv2, iv2))

ViewReconfigure ==
    \E k \in CipherKeys \cup {""} : Unobserved(SetEncryptionKey(k))

Corrupt ==
    \E id \in 1..MaxId, column \in {"password_enc", "keys_enc"},
       how \in {"tampered", "malformed"} :
        Unobserved(corrupt(id, column, how))

View ==
    \E u \in Users, id \in 1..MaxId, password_ok \in BOOLEAN :
        Served(view_account(u, id, password_ok), view_response(u, id, password_ok),
               ViewLog(u, id, password_ok))

ViewInit == Init

ViewNext == ViewCreate \/ ViewImport \/ ViewReconfigure \/ Corrupt \/ View

ViewSpec == ViewInit /\ [][ViewNext]_vars

\* The orders of the shop: one order is placed, PayPal's events for it
\* arrive at two workers, internal fulfilment is attempted, the maintenance
\* task runs and time passes.
CreateOrder ==
    \E u \in Users, quantity \in 0..MaxQty, o \in OrderIds : create_order(u, quantity, o)

Webhook ==
    \E w \in Workers, e \in EventTypes, o \in OrderIds : paypal_webhook(w, e, o)

Fulfill ==
    \E w \in Workers, o \in OrderIds : fulfill_order(w, o)

CreditUser == \E w \in Workers : credit_user(w)

CommitRequest == \E w \in Workers : commit(w)

PayInit == Init

PayNext ==
    \/ CreateOrder \/ Webhook \/ Fulfill \/ CreditUser \/ CommitRequest
    \/ run_paypal_maintenance \/ Elapse

PaySpec == PayInit /\ [][PayNext]_vars

\* Account creation as two workers serve it, on a chain where no name is
\* taken yet, with the operator setting or unsetting the encryption key.
CreateLoad ==
    \E w \in Workers, u \in Users, n \in FormUsernames, p \in {"p1", ""} :
        create_load(w, u, n, p)

CreateClaim ==
    \E w \in Workers, lookupFails \in BOOLEAN, broadcastFails \in BOOLEAN :
        create_claim(w, lookupFails, broadcastFails)

CreateSave == \E w \in Workers, iv1 \in WebIVs, iv2 \in WebIVs : create_save(w, iv1, iv2)

\* The application is restarted with another environment while it serves
\* no request.
RaceReconfigure ==
    /\ \A w \in Workers : hook[w].pc = "idle"
    /\ \E k \in {"K1", ""} :
          SetEncryptionKey(k) /\ UNCHANGED <<rotVars, hist, resp, req, siteVars>>

RaceInit ==
    /\ db = {}
    /\ credits = [u \in Users |-> InitCredits]
    /\ chain = [n \in WellFormedUsernames |-> NoAccount]
    /\ config = [HIVE_ENCRYPTION_KEY |-> "K1", HIVE_CLAIMER_KEY |-> TRUE]
    /\ InitRot
    /\ InitSite

RaceNext == CreateLoad \/ CreateClaim \/ CreateSave \/ RaceReconfigure

RaceSpec == RaceInit /\ [][RaceNext]_vars

\* The groups as their users and the administrator drive them.
FormGroupNames == GroupNames \cup {""}
FormOwnerNames == {Usernames[u] : u \in Users} \cup {"nobody"}
GroupIds == 1..Cardinality(GroupNames)

GroupCreate == \E u \in Users, name \in FormGroupNames : group_create(u, name)

EditGroup == \E u \in Users, id \in GroupIds, name \in FormGroupNames : edit_group(u, id, name)

AddMember ==
    \E u \in Users, id \in GroupIds, username \in FormOwnerNames : add_member(u, id, username)

RemoveMember == \E u \in Users, id \in GroupIds, v \in Users : remove_member(u, id, v)

PromoteMember == \E u \in Users, id \in GroupIds, v \in Users : promote_member(u, id, v)

DemoteMember == \E u \in Users, id \in GroupIds, v \in Users : demote_member(u, id, v)

AdminEditGroup ==
    \E u \in Users, id \in GroupIds, name \in GroupNames, owner \in FormOwnerNames :
        admin_edit_group(u, id, name, owner)

GroupInit == Init

GroupNext ==
    \/ GroupCreate \/ EditGroup \/ AddMember \/ RemoveMember
    \/ PromoteMember \/ DemoteMember \/ AdminEditGroup

GroupSpec == GroupInit /\ [][GroupNext]_vars

\* The drafts of one group, founded by the administrator, which the other
\* user joins, rises in and leaves.
DraftCreate ==
    \E u \in Users, title \in Titles \cup {""}, body \in Bodies \cup {""}, tags \in Tags,
       linked \in BOOLEAN, salt \in Salts :
        draft_create(u, 1, title, body, tags, linked, salt)

DraftEdit ==
    \E u \in Users, id \in 1..MaxDrafts, title \in Titles, body \in Bodies, tags \in Tags,
       salt \in Salts :
        edit(u, id, title, body, tags, salt)

DraftRestore ==
    \E u \in Users, id \in 1..MaxDrafts, n \in 1..MaxVersions : restore(u, id, n)

DraftReject == \E u \in Users, id \in 1..MaxDrafts : reject(u, id)

DraftSubmit == \E u \in Users, id \in 1..MaxDrafts, posted \in BOOLEAN : submit(u, id, posted)

DraftAddMember == \E u \in Users, username \in FormOwnerNames : add_member(u, 1, username)

DraftRemoveMember == \E u \in Users, v \in Users : remove_member(u, 1, v)

DraftPromoteMember == \E u \in Users, v \in Users : promote_member(u, 1, v)

DraftDemoteMember == \E u \in Users, v \in Users : demote_member(u, 1, v)

DraftInit ==
    /\ InitWeb
    /\ config = [HIVE_ENCRYPTION_KEY |-> "K1", HIVE_CLAIMER_KEY |-> TRUE]
    /\ InitRot
    /\ InitPay
    /\ groups = {Group(1, "g1", 2)}
    /\ group_members = {GroupMember(1, 2, "owner")}
    /\ drafts = {}
    /\ versions = {}

DraftNext ==
    \/ DraftCreate \/ DraftEdit \/ DraftRestore \/ DraftReject \/ DraftSubmit
    \/ DraftAddMember \/ DraftRemoveMember \/ DraftPromoteMember \/ DraftDemoteMember

DraftSpec == DraftInit /\ [][DraftNext]_vars

----------------------------------------------------------------------------
(* Properties *)

SecretColumns == {"password_enc", "keys_enc"}

\* The row of the table an ORM object of the session stands for.
RowOf(obj) == CHOOSE r \in db : r.id = obj.id

Finished == pc = "done" /\ outcome # "none"

\* The roles of the key set a row holds, read with the key it was sealed under.
StoredRoles(r) == {r.keys_enc.body.text[i].role : i \in DOMAIN r.keys_enc.body.text}

\* C1: no persisted HiveAccount row's encrypted key set contains the owner
\* role, whatever sequence of create and import_account requests was served.
C1_NoOwnerPersisted == \A r \in db : "owner" \notin StoredRoles(r)

\* C2: a run without --dry-run and without --ignore-errors in which a record
\* failed commits nothing: the table after the run is the table before the
\* batch decision, and, when no web request wrote meanwhile, the table as it
\* was when the run began.
C2_StrictAtomicity ==
    (Finished /\ ~args.dry_run /\ ~args.ignore_errors /\ errors > 0)
        => /\ outcome = "rolled_back"
           /\ db = hist.before
           /\ ~hist.raced => db = hist.started

C2_Witness ==
    /\ Finished /\ ~args.dry_run /\ ~args.ignore_errors
    /\ errors > 0 /\ changed_count > 0 /\ ~hist.raced
    /\ \E i \in DOMAIN accounts : accounts[i] # loaded[i]

\* C3: a run with --dry-run leaves the table as it was, with either value of
\* --ignore-errors and whatever each record's outcome, and its counters still
\* hold the numbers of verified and failed records.
C3_DryRunNoEffect ==
    (Finished /\ args.dry_run)
        => /\ outcome = "dry_run"
           /\ db = hist.before
           /\ ~hist.raced => db = hist.started
           /\ changed_count = Cardinality({i \in DOMAIN hist.status : hist.status[i] = "verified"})
           /\ errors = Cardinality({i \in DOMAIN hist.status : hist.status[i] = "failed"})
           /\ changed_count + errors = Len(accounts)

C3_Witness ==
    /\ Finished /\ args.dry_run /\ args.ignore_errors
    /\ errors > 0 /\ changed_count > 0
    /\ \E i \in DOMAIN accounts : accounts[i] # loaded[i]

\* C4: after a committing run with --ignore-errors, every record counted as
\* failed, at the decryption or at the round-trip check, holds the ciphertext
\* it had when loaded, and only verified records hold new ciphertext.
C4_FailedKeepOldCiphertext ==
    (Finished /\ outcome = "committed" /\ args.ignore_errors /\ ~hist.raced)
        => \A i \in DOMAIN accounts :
              hist.status[i] = "failed"
                  => /\ RowOf(accounts[i]).password_enc = loaded[i].password_enc
                     /\ RowOf(accounts[i]).keys_enc = loaded[i].keys_enc

\* C5 as stated: after a committing run without failures and without an
\* interleaved insert, every encrypted column of every row opens under
\* new_key to the plaintext it held under old_key, and none opens under
\* old_key.
C5_CompleteMigration ==
    (Finished /\ outcome = "committed" /\ errors = 0 /\ ~hist.raced)
        => /\ {r.id : r \in db} = {accounts[i].id : i \in DOMAIN accounts}
           /\ \A i \in DOMAIN accounts : \A c \in SecretColumns :
                 Truthy(RowOf(accounts[i])[c])
                     => /\ DecryptOk(args.new_key, RowOf(accounts[i])[c])
                        /\ DecryptOk(args.old_key, loaded[i][c])
                        /\ decrypt(args.new_key, RowOf(accounts[i])[c])
                               = decrypt(args.old_key, loaded[i][c])
                        /\ ~DecryptOk(args.old_key, RowOf(accounts[i])[c])

\* C5 as amended: the same, where "none opens under old_key" is claimed only
\* of a run whose new_key differs from its old_key.
C5_CompleteMigrationAmended ==
    (Finished /\ outcome = "committed" /\ errors = 0 /\ ~hist.raced)
        => /\ {r.id : r \in db} = {accounts[i].id : i \in DOMAIN accounts}
           /\ \A i \in DOMAIN accounts : \A c \in SecretColumns :
                 Truthy(RowOf(accounts[i])[c])
                     => /\ DecryptOk(args.new_key, RowOf(accounts[i])[c])
                        /\ DecryptOk(args.old_key, loaded[i][c])
                        /\ decrypt(args.new_key, RowOf(accounts[i])[c])
                               = decrypt(args.old_key, loaded[i][c])
                        /\ args.new_key # args.old_key
                               => ~DecryptOk(args.old_key, RowOf(accounts[i])[c])

C5_Witness ==
    /\ Finished /\ outcome = "committed" /\ errors = 0 /\ ~hist.raced
    /\ args.new_key # args.old_key
    /\ Len(accounts) = 2
    /\ \E i \in DOMAIN accounts : Truthy(loaded[i].password_enc)
    /\ \E i \in DOMAIN accounts : ~Truthy(loaded[i].password_enc)

\* C6: a loop iteration is counted as verified only if every column it
\* opened with old_key now holds a token that opens under new_key to the
\* plaintext the loaded token held; an iteration whose new token opens to
\* anything else is counted as failed; changed_count counts the verified ones.
C6_RoundTripGate ==
    pc \in {"loop", "done"}
        => /\ changed_count = Cardinality({i \in DOMAIN hist.status : hist.status[i] = "verified"})
           /\ \A i \in DOMAIN hist.status : \A c \in SecretColumns :
                 /\ (hist.status[i] = "verified" /\ Truthy(loaded[i][c]))
                        => /\ DecryptOk(args.old_key, loaded[i][c])
                           /\ DecryptOk(args.new_key, accounts[i][c])
                           /\ decrypt(args.new_key, accounts[i][c])
                                  = decrypt(args.old_key, loaded[i][c])
                 /\ (Truthy(loaded[i][c]) /\ accounts[i][c] # loaded[i][c]
                       /\ decrypt(args.new_key, accounts[i][c]) # decrypt(args.old_key, loaded[i][c]))
                        => hist.status[i] = "failed"

C6_Witness ==
    /\ pc = "loop"
    /\ Len(hist.status) = 2
    /\ \E i \in DOMAIN hist.status :
          /\ hist.status[i] = "verified"
          /\ accounts[i].keys_enc # loaded[i].keys_enc
    /\ \E i \in DOMAIN hist.status :
          /\ hist.status[i] = "failed"
          /\ accounts[i].keys_enc # loaded[i].keys_enc
          /\ decrypt(args.new_key, accounts[i].keys_enc) # decrypt(args.old_key, loaded[i].keys_enc)

\* C7: in a run without --no-backup the snapshot is complete from the moment
\* rotate_keys is entered, before any session object or row is changed, and
\* it holds for every row the password_enc and keys_enc the table had when
\* the run began.
C7_BackupPrecedesMutation ==
    (pc \in {"rotate", "loop", "done"} /\ args.old_key # "" /\ ~args.no_backup)
        => /\ backup.written
           /\ Len(backup.data) = Cardinality(hist.started)
           /\ \A r \in hist.started : \E i \in DOMAIN backup.data :
                 /\ backup.data[i].id = r.id
                 /\ backup.data[i].password_enc = r.password_enc
                 /\ backup.data[i].keys_enc = r.keys_enc

C7_Witness ==
    /\ pc = "loop" /\ ~args.no_backup
    /\ Len(backup.data) = 2
    /\ \E i \in DOMAIN accounts : accounts[i] # loaded[i]
    /\ \E i \in DOMAIN backup.data : backup.data[i].password_enc # Null

\* The persisted fields of a credential record: identity, both ciphertext
\* columns, owner reference and provenance.
PersistedColumns == {"id", "username", "password_enc", "keys_enc", "created_by_id", "tx_id"}

\* C8: the snapshot holds, for every row of the table, all of the row's
\* persisted fields, so that the rows can be rebuilt from it.
C8_SnapshotHoldsAllFields ==
    backup.written
        => \A r \in hist.started : \E i \in DOMAIN backup.data :
              \A c \in PersistedColumns :
                  c \in DOMAIN backup.data[i] /\ backup.data[i][c] = r[c]

\* C9: no value of the snapshot is a decrypted secret: its secret-bearing
\* columns hold Fernet tokens (or null), never plaintext, and it has no other
\* column that could carry one.
C9_NoPlaintextInBackup ==
    backup.written
        => \A i \in DOMAIN backup.data :
              /\ DOMAIN backup.data[i] \subseteq
                     {"id", "username", "created_by_id"} \cup SecretColumns
              /\ \A c \in SecretColumns : backup.data[i][c].kind \in {"token", "null"}

C9_Witness ==
    /\ backup.written
    /\ \E i \in DOMAIN backup.data : backup.data[i].password_enc.kind = "token"
    /\ \E i \in DOMAIN backup.data : backup.data[i].password_enc.kind = "null"

\* C10: the process exits with status 0 when the run fully succeeds, a dry
\* run included, and with a nonzero status when the batch was rolled back
\* because records failed.
C10_ExitStatus ==
    Finished
        => /\ (outcome \in {"committed", "dry_run"} /\ errors = 0) => exit_code = 0
           /\ outcome = "rolled_back" => exit_code # 0

----------------------------------------------------------------------------
(* Properties of the import form, the table's uniqueness, the visibility of
   a rotation and the view page *)

\* The key set a row holds: its members in order.
Keyset(r) == r.keys_enc.body.text
KeysetRoles(r) == {Keyset(r)[i].role : i \in DOMAIN Keyset(r)}

\* The rows the request served last added to the table.
Added == db \ req.before

\* The account's on-chain authority for a role holds the public key.
InAuthority(username, role, public) ==
    IF role = "memo" THEN chain[username].memo_key = public
    ELSE \E i \in DOMAIN chain[username][role] : chain[username][role][i][1] = public

\* The last request was an import that got as far as checking keys against
\* the account's authorities.
ImportVerified ==
    /\ req.op = "import"
    /\ resp.flash \in {MsgMasterFailed, MsgNoValidKeys, MsgEncKeyError, Http500, MsgImported}

\* The candidate private key of a role in the last import request: derived
\* from the master password, or the key typed into the role's field.
Candidate(role) ==
    IF req.password # "" THEN PasswordKey(req.username, req.password, role)
    ELSE IF role = "posting" THEN req.posting_key
    ELSE IF role = "active" THEN req.active_key
    ELSE req.memo_key

\* The candidate of the role is present, well formed and in the authority.
Verifies(role) ==
    /\ Candidate(role) # ""
    /\ ParsesAsWif(Candidate(role))
    /\ InAuthority(req.username, role, pubkey(Candidate(role)))

\* C11: when import_account stores a record from a master password, the
\* active and the memo key of the stored key set each match the account's
\* on-chain authority for their own role.
C11_DerivedRolesVerified ==
    (req.op = "import" /\ req.password # "" /\ resp.flash = MsgImported)
        => \A r \in Added : \A i \in DOMAIN Keyset(r) :
              Keyset(r)[i].role \in {"active", "memo"}
                  => InAuthority(req.username, Keyset(r)[i].role, Keyset(r)[i].public)

\* C12: on both input paths an import that reached verification is rejected
\* with a no-authority-match message if and only if none of its roles
\* verifies; a role that does not verify is dropped and the others stored.
C12_RejectedIffNothingVerifies ==
    ImportVerified
        => /\ resp.flash \in {MsgMasterFailed, MsgNoValidKeys}
                 <=> ~\E role \in {"posting", "active", "memo"} : Verifies(role)
           /\ resp.flash = MsgImported
                 => \A r \in Added :
                       KeysetRoles(r) = {role \in {"posting", "active", "memo"} : Verifies(role)}

\* C13: on the raw-keys path a posting or active key is in the stored key set
\* if and only if its public key is the first element of some pair of the
\* role's key_auths, whatever the pair's weight; a key that is in the
\* authority never ends in a no-authority-match rejection.
C13_MembershipDecides ==
    (ImportVerified /\ req.password = "")
        => \A role \in {"posting", "active"} :
              /\ resp.flash = MsgImported
                    => \A r \in Added :
                          /\ role \in KeysetRoles(r) <=> Verifies(role)
                          /\ \A i \in DOMAIN Keyset(r) :
                                Keyset(r)[i].role = role
                                    => /\ Keyset(r)[i].private = Candidate(role)
                                       /\ Keyset(r)[i].public = pubkey(Candidate(role))
              /\ Verifies(role) => resp.flash # MsgNoValidKeys

C13_Witness ==
    /\ ImportVerified /\ req.password = "" /\ resp.flash = MsgImported
    /\ req.posting_key = AlicePosting2Wif
    /\ req.active_key = PasswordKey("alice", "p1", "active")
    /\ \E r \in Added : KeysetRoles(r) = {"posting"}

\* C14: on the raw-keys path a memo key is in the stored key set if and only
\* if its public key equals the account's memo key; being a key of another
\* authority of the account does not count.
C14_MemoEquality ==
    (ImportVerified /\ req.password = "")
        => /\ resp.flash = MsgImported
                 => \A r \in Added :
                       /\ "memo" \in KeysetRoles(r)
                              <=> /\ req.memo_key # "" /\ ParsesAsWif(req.memo_key)
                                  /\ pubkey(req.memo_key) = chain[req.username].memo_key
                       /\ \A i \in DOMAIN Keyset(r) :
                             Keyset(r)[i].role = "memo" => Keyset(r)[i].private = req.memo_key
           /\ (ParsesAsWif(req.memo_key) /\ pubkey(req.memo_key) = chain[req.username].memo_key)
                 => resp.flash # MsgNoValidKeys

C14_Witness ==
    /\ ImportVerified /\ req.password = "" /\ resp.flash = MsgImported
    /\ req.memo_key = AliceActiveWif
    /\ req.active_key = AliceActiveWif
    /\ \E r \in Added : KeysetRoles(r) = {"active"}

\* C15: an import that ends in a no-authority-match rejection leaves the
\* table exactly as it found it.
C15_RejectedStoresNothing ==
    (req.op = "import" /\ resp.flash \in {MsgMasterFailed, MsgNoValidKeys})
        => db = req.before

C15_Witness ==
    /\ req.op = "import" /\ resp.flash = MsgNoValidKeys
    /\ req.posting_key = "" /\ req.active_key = ""
    /\ req.memo_key = AliceActiveWif
    /\ req.before # {}

\* C16: an import whose blockchain lookup fails ends with an error message
\* and inserts nothing, with a master password and with individual keys.
C16_LookupFailureStoresNothing ==
    (req.op = "import" /\ req.lookupFails)
        => /\ db = req.before
           /\ resp.flash \in {MsgInvalidUsername, MsgAlreadyImported, MsgNotFoundOnChain}
           /\ (is_valid_hive_username(req.username)
                 /\ ~\E r \in req.before : r.username = req.username /\ r.created_by_id = req.user)
                    => resp.flash = MsgNotFoundOnChain

C16_Witness ==
    /\ req.op = "import" /\ req.lookupFails /\ resp.flash = MsgNotFoundOnChain
    /\ req.password = "" /\ Verifies("posting")
    /\ req.before # {}

\* C17: a raw-keys import in which a typed key cannot be parsed is rejected
\* with a message of its own, not the no-authority-match one, and stores
\* nothing, even when another typed key is in its authority.
C17_MalformedRejected ==
    (ImportVerified /\ req.password = ""
       /\ \E k \in {req.posting_key, req.active_key, req.memo_key} : k # "" /\ ~ParsesAsWif(k))
        => /\ resp.flash \notin {MsgImported, MsgNoValidKeys}
           /\ db = req.before

\* C18: the table never holds two rows with the same username, and a create
\* or import of a username the table already holds, by its creator or by
\* another user, fails and leaves the table as it was.
C18_UsernameUnique ==
    /\ \A r1 \in db : \A r2 \in db : r1.username = r2.username => r1 = r2
    /\ (req.op \in {"create", "import"} /\ \E r \in req.before : r.username = req.username)
          => /\ resp.flash \notin {MsgCreated, MsgImported}
             /\ db = req.before

C18_Witness ==
    /\ req.op = "import" /\ resp.flash = Http500
    /\ \E r \in db : r.username = req.username /\ r.created_by_id # req.user
    /\ Verifies("posting")

\* The loop iterations of the current run that were counted as verified.
VerifiedRecords == {i \in DOMAIN hist.status : hist.status[i] = "verified"}

\* C19: at every moment of a rotation run the table, as any reader sees it,
\* holds the new ciphertext of every verified record or of none of them.
C19_AtomicVisibility ==
    pc \in {"loop", "done"}
        => \/ \A i \in VerifiedRecords : \A c \in SecretColumns :
                 RowOf(accounts[i])[c] = accounts[i][c]
           \/ \A i \in VerifiedRecords : \A c \in SecretColumns :
                 RowOf(accounts[i])[c] = loaded[i][c]

C19_Witness ==
    /\ Finished /\ outcome = "committed"
    /\ Cardinality(VerifiedRecords) = 2
    /\ \A i \in VerifiedRecords : RowOf(accounts[i]).keys_enc # loaded[i].keys_enc

\* Why a stored column does not open under a key.
Cause(token, key) ==
    IF token.kind = "null" THEN "absent"
    ELSE IF token.kind = "tampered" THEN "tampered"
    ELSE IF token.kind # "token" THEN "malformed"
    ELSE IF token.key # key THEN "wrong key"
    ELSE "opens"

\* The last request was a view by the row's creator, with the right login
\* password and a configured key: the handler went on to decrypt.
ViewDecrypts ==
    /\ req.op = "view" /\ req.password_ok /\ req.key # ""
    /\ \E r \in req.before : r.id = req.id /\ r.created_by_id = req.user

Viewed == CHOOSE r \in req.before : r.id = req.id

\* C20: when view_account cannot open a stored column, because the key is
\* wrong, the token was tampered with or the text is no token, the response
\* is the same redirect with the same message in all three cases, and it
\* shows no decrypted secret.
C20_SingleDecryptionError ==
    (ViewDecrypts /\ \E c \in SecretColumns :
                        Cause(Viewed[c], req.key) \in {"wrong key", "tampered", "malformed"})
        => resp = [flash |-> MsgDecryptFailed, page |-> Null]

C20_Witness ==
    /\ ViewDecrypts
    /\ Cause(Viewed.password_enc, req.key) = "opens"
    /\ Cause(Viewed.keys_enc, req.key) = "tampered"
    /\ resp.flash = MsgDecryptFailed

----------------------------------------------------------------------------
(* Properties of the rotation report and scan *)

\* The report of the finished run.
report == Printed(outcome, changed_count, errors)

\* The rows a finished run left sealed under its old key, among those it loaded.
RetainedOldKey ==
    {i \in DOMAIN accounts : \A c \in SecretColumns :
        RowOf(accounts[i])[c] = loaded[i][c]}

\* C21: a run with --ignore-errors that commits although records failed
\* reports mixed_key_versions as true, the number of verified records as
\* committed and the number of records left under the old key as failed.
C21_ReportsMixedKeyVersions ==
    (Finished /\ outcome = "committed" /\ args.ignore_errors /\ errors > 0 /\ ~hist.raced)
        => /\ "mixed_key_versions" \in DOMAIN report
           /\ report.mixed_key_versions = TRUE
           /\ report.rotated = Cardinality(VerifiedRecords)
           /\ report.errors_ignored = Cardinality(RetainedOldKey)

\* C22: in every run each loaded record is attempted exactly once, in
\* order, a failed record does not stop the scan, and when the scan ends
\* the verified and failed counts add up to the number of records.
C22_ScanCoversEveryRecord ==
    /\ pc = "loop"
          => /\ Len(hist.status) = idx - 1
             /\ idx <= Len(accounts) + 1
             /\ changed_count + errors = idx - 1
             /\ \A i \in DOMAIN accounts : i >= idx => accounts[i] = loaded[i]
    /\ Finished
          => /\ Len(hist.status) = Len(accounts)
             /\ changed_count + errors = Len(accounts)
             /\ changed_count = Cardinality(VerifiedRecords)
             /\ ~hist.raced => Len(accounts) = Cardinality(hist.started)

C22_Witness ==
    /\ Finished /\ Len(accounts) = 2
    /\ hist.status = <<"failed", "verified">>
    /\ accounts[2] # loaded[2]

\* The run was strict: neither --dry-run nor --ignore-errors.
Strict == ~args.dry_run /\ ~args.ignore_errors

\* No loaded record has a column that opens under the run's old key.
WrongOldKey ==
    \A i \in DOMAIN loaded : \A c \in SecretColumns :
        Truthy(loaded[i][c]) => ~DecryptOk(args.old_key, loaded[i][c])

\* C23 as stated: a strict run whose old key is not the key the records are
\* sealed under fails on every record with ciphertext and leaves the table
\* unchanged, and a strict run repeated with the same keys after it
\* committed changes nothing.
C23_WrongOldKeyNoDamage ==
    (Finished /\ Strict /\ ~hist.raced)
        => /\ WrongOldKey
                 => /\ \A i \in DOMAIN accounts :
                          (\E c \in SecretColumns : Truthy(loaded[i][c]))
                              => hist.status[i] = "failed"
                    /\ db = hist.started
           /\ hist.rerun => db = hist.started

\* C23 as amended: the repeated run changes nothing when its new key
\* differs from its old key.
C23_WrongOldKeyNoDamageAmended ==
    (Finished /\ Strict /\ ~hist.raced)
        => /\ WrongOldKey
                 => /\ \A i \in DOMAIN accounts :
                          (\E c \in SecretColumns : Truthy(loaded[i][c]))
                              => hist.status[i] = "failed"
                    /\ db = hist.started
           /\ (hist.rerun /\ args.new_key # args.old_key) => db = hist.started

C23_Witness ==
    /\ Finished /\ Strict /\ ~hist.raced
    /\ hist.rerun /\ args.new_key # args.old_key
    /\ WrongOldKey
    /\ Len(accounts) = 2 /\ errors = 2
    /\ outcome = "rolled_back"

\* The fulfilment attempts: replayed PAYMENT.CAPTURE.COMPLETED events and
\* calls of fulfill_order.
Fulfilments == {"PAYMENT.CAPTURE.COMPLETED", "fulfill_order"}

\* C24: over sequential fulfilment attempts for one order, by fulfill_order
\* or by replayed PAYMENT.CAPTURE.COMPLETED events, the order's credits are
\* added once: a completed order has added exactly credits_purchased, an
\* order not yet completed has added nothing, and an attempt that finds the
\* order COMPLETED never starts a second grant.
C24_FulfilmentIdempotent ==
    (~audit.overlap /\ audit.seen \subseteq Fulfilments)
        => /\ \A o \in orders :
                 audit.added[o.paypal_order_id] =
                     IF o.status = "COMPLETED" THEN o.credits_purchased ELSE 0
           /\ \A id \in OrderIds : audit.added[id] <= audit.purchased[id]

C24_Witness ==
    /\ ~audit.overlap /\ audit.seen = Fulfilments /\ audit.replayed
    /\ \A w \in Workers : hook[w].pc = "idle"
    /\ \E o \in orders : o.status = "COMPLETED" /\ audit.added[o.paypal_order_id] > 0

\* C25: for every sequence of COMPLETED, REFUNDED and DENIED events, in any
\* order and with repeats, and of maintenance runs, the credits added for
\* an order never exceed its credits_purchased.
C25_NeverOverCredited ==
    ~audit.overlap => \A id \in OrderIds : audit.added[id] <= audit.purchased[id]

\* C26: two concurrent PAYMENT.CAPTURE.COMPLETED requests for one order
\* add its credits only once.
C26_ConcurrentCreditOnce ==
    audit.seen \subseteq {"PAYMENT.CAPTURE.COMPLETED"}
        => \A id \in OrderIds : audit.added[id] <= audit.purchased[id]

\* The HiveAccount rows a user's create requests made, and the credits
\* taken from the user.
Provisioned(u) == {r \in db : r.created_by_id = u}
Deducted(u) == InitCredits - credits[u]

\* C27: with create requests of one user running concurrently, the user's
\* account_credits never go below zero and the accounts provisioned for the
\* user never outnumber the credits deducted.
C27_OneCreditOneAccount ==
    \A u \in Users : /\ credits[u] >= 0
                     /\ Cardinality(Provisioned(u)) <= Deducted(u)

\* C28: no on-chain account is orphaned: once a create request that
\* broadcast the account has ended, the table holds the HiveAccount of that
\* name and the user was charged one credit for each account broadcast.
C28_NoOrphanedAccount ==
    (~audit.overlap /\ \A w \in Workers : hook[w].pc = "idle")
        => /\ \A c \in audit.claimed :
                 \E r \in db : r.username = c.username /\ r.created_by_id = c.by
           /\ \A u \in Users :
                 Deducted(u) = Cardinality({c \in audit.claimed : c.by = u})

\* C29: a published draft is frozen: no request changes its title, body,
\* tags or permlink, deletes it, or takes it out of the published status.
C29_PublishedFrozen ==
    [][\A d \in drafts :
          d.status = "published"
              => \E e \in drafts' :
                    /\ e.id = d.id /\ e.status = "published"
                    /\ e.title = d.title /\ e.body = d.body
                    /\ e.tags = d.tags /\ e.permlink = d.permlink]_vars

\* C30: every group's owner_user_id names a user who holds a GroupMember
\* row of that group with role "owner".
C30_OwnerIsOwnerMember ==
    \A g \in groups : RoleOf(g.id, g.owner_user_id) = "owner"

====
